---------------------------- MODULE Spec2Model ----------------------------
(***************************************************************************)
(* A model of semblance: the bounded retry / reconnect command dispatch of *)
(* ToyClientManager (toy_handler.py), the device worker loop               *)
(* handle_toy_client (toy_handler.py) and the log tail worker              *)
(* TF2ConsoleReader.start_watching (console_handler.py).                   *)
(*                                                                         *)
(* Floating point intensities are scaled by Unit (1.0 is Unit).            *)
(***************************************************************************)
EXTENDS Integers, Sequences, FiniteSets, TLC

VARIABLES
    \* ---- ToyClientManager / the client it owns
    connected,          \* client.connected, which reads connector.connected
    nacts,              \* number of actuators of each role on the device
    \* ---- one call of apply_intensity
    ai_pc,              \* position: idle, dispatch, reconnect, ret, done
    ai_args,            \* the regular / rotary / linear argument tuples
    grp,                \* role group being iterated
    act,                \* index of the actuator in that group
    \* ---- one call of _apply_intensity (locals)
    retry_attempt,
    extra_go_tried,
    reconnect_attempts,
    val,                \* the value _apply_intensity returned
    \* ---- observations of the running calls
    h,                  \* counters of the current _apply_intensity call
    attempts,           \* per-actuator applications made by apply_intensity
    lastCmd,            \* the last command handed to an actuator
    \* ---- the log file and the TF2ConsoleReader that tails it
    file,               \* the file's content, a sequence of characters
    fh,                 \* _file_handle: unopened, open, closed
    cursor,             \* _file_handle.tell()
    seek_offset,        \* self._seek_offset
    lw_pc,              \* position of start_watching
    pending,            \* lines of _data the for loop has not handled yet
    output_queue,       \* output_queue: the events not yet consumed
    log_cq,             \* control_queue of the log worker
    log_unfinished,     \* its count of unfinished tasks
    \* ---- observations of the log worker
    published,          \* every event put on output_queue so far
    tailed,             \* lines appended since the cursor was set / the truncation
    truncs,             \* truncations so far
    nappends,           \* lines appended so far
    readSince,          \* the worker has read the file since its last change
    nctl,               \* control messages put so far
    kill_at_top,        \* a KillMessage headed log_cq when this cycle began
    \* ---- the device worker handle_toy_client and its queues
    dw_pc,              \* position of handle_toy_client
    dev_cq,             \* control_queue of the device worker
    dev_unfinished,     \* its count of unfinished tasks
    dev_mq,             \* message_queue
    msg_unfinished,     \* its count of unfinished tasks
    elapsed,            \* seconds since _last_connection_check, up to CheckPeriod + 1
    \* ---- observations of the device worker
    dev_nctl,           \* control messages put so far
    dev_nmsg,           \* device messages put so far
    client_calls,       \* client calls the device worker issued on its way out
    since_check,        \* seconds since the last scheduled connection check ran
    since_apply,        \* seconds since the last command was applied
    check_flip,         \* flips each time a scheduled connection check runs
    timing,             \* the three observations above are being recorded
    \* ---- ToyClientManager: handshake, scan_devices, ensure_connected
    hs_pc,              \* position of handshake
    hs_err,             \* the exception handshake raised, "none" if none
    hs_calls,           \* <<call, outcome>> of each client call of this handshake
    hs_was_connected,   \* connector.connected when this handshake began
    hs_n,               \* handshakes begun so far
    target_device,      \* self.target_device: "null" or the name of a device
    devices,            \* client.devices, in the order the devices were found
    ec_log,             \* one record per direct call of ensure_connected
    \* ---- main of console_handler.py, the supervisor of the log worker
    sup_pc,             \* position of main
    out_maxsize,        \* maxsize of output_queue, 0: no limit
    \* ---- main of toy_handler.py, the supervisor of the device worker
    toy_pc              \* position of main

applyVars == <<connected, nacts, ai_pc, ai_args, grp, act, retry_attempt,
               extra_go_tried, reconnect_attempts, val, h, attempts, lastCmd>>

logVars == <<file, fh, cursor, seek_offset, lw_pc, pending, output_queue,
             log_cq, log_unfinished, published, tailed, truncs, nappends,
             readSince, nctl, kill_at_top>>

devVars == <<dw_pc, dev_cq, dev_unfinished, dev_mq, msg_unfinished, elapsed,
             dev_nctl, dev_nmsg, client_calls, since_check, since_apply,
             check_flip, timing>>

sessVars == <<hs_pc, hs_err, hs_calls, hs_was_connected, hs_n,
              target_device, devices, ec_log>>

supVars == <<sup_pc, out_maxsize, toy_pc>>

vars == <<applyVars, logVars, devVars, sessVars, supVars>>

---------------------------------------------------------------------------
(* Bounds and program constants *)

MaxAct == 2

MaxAppends == 2

MaxTruncs == 1
(* lines appended to the file while control messages are exchanged *)
MaxDrainAppends == 2

MaxCtl == 2

MaxMsg == 2

(* direct calls of ensure_connected *)
MaxEnsure == 3

(* calls of handshake *)
MaxHandshakes == 2

CheckPeriod == 5

OutCap == 1

max_retries == 3

max_reconnect_retries == 3

Unit == 10

(* Python's None and the empty tuple: both are falsy in "if regular:" *)
None == <<>>

NoCommand == [role |-> "none", args |-> <<>>]

IntensityValues == {-3, 0, 5, 10, 17}

Roles == <<"regular", "rotary", "linear">>

Min(a, b) == IF a < b THEN a ELSE b

Max(a, b) == IF a > b THEN a ELSE b

---------------------------------------------------------------------------
(* await_with_timeout: what the awaiting caller sees for each way the      *)
(* awaited transport call can end.                                         *)
(*   "completed"  the call finished inside the timeout                     *)
(*   "expired"    wait_for raised TimeoutError (line 21); it is caught at  *)
(*                line 23 and None is returned                             *)
(*   "raised"     a TimeoutError that is not raised inside the try of      *)
(*                lines 20-22 (the argument expression that builds the     *)
(*                awaitable raised it): it reaches the caller              *)
(***************************************************************************)
TransportOutcomes == {"completed", "expired", "raised"}

(*   "error"      the call raised an exception that is not a TimeoutError  *)
await_with_timeout(outcome) ==
    CASE outcome = "completed" -> "returned"
      [] outcome = "expired"   -> "returned"
      [] outcome = "raised"    -> "TimeoutError"
      [] outcome = "error"     -> "Exception"

(* the clamp with its upper limit forgotten *)
apply_intensity_actuator_value_lower_only(intensity_value) ==
    IF ~(0 <= intensity_value /\ intensity_value <= Unit)
    THEN Max(0, intensity_value)
    ELSE intensity_value

(* _apply_intensity_actuator: the value handed to actuator.command *)
apply_intensity_actuator_value(intensity_value) ==
    IF ~(0 <= intensity_value /\ intensity_value <= Unit)
    THEN Max(0, Min(Unit, intensity_value))
    ELSE intensity_value

(* The command a role's applicator hands to the actuator *)
CommandFor(role, args) ==
    IF role = "regular"
    THEN [role |-> role, args |-> <<apply_intensity_actuator_value(args[1])>>]
    ELSE [role |-> role, args |-> args]

---------------------------------------------------------------------------
(* apply_intensity: the iteration over the groups *)

Supplied(args, g) == args[Roles[g]] # None

(* first group at or after g that is supplied and has an actuator; 4: none *)
RECURSIVE FirstGroupFrom(_, _, _)
FirstGroupFrom(args, n, g) ==
    IF g > 3 THEN 4
    ELSE IF Supplied(args, g) /\ n[Roles[g]] >= 1 THEN g
    ELSE FirstGroupFrom(args, n, g + 1)

H0 == [dispatches |-> 0, dispIdx |-> <<>>, completedSeen |-> FALSE,
       expiredSeen |-> FALSE, recCalls |-> 0, recFails |-> 0, grants |-> 0,
       steps |-> 0, aborted |-> FALSE, lastOutcome |-> "none"]

(* entering _apply_intensity for actuator i of group g *)
EnterApply(g, i) ==
    /\ grp' = g
    /\ act' = i
    /\ retry_attempt' = 1
    /\ extra_go_tried' = FALSE
    /\ reconnect_attempts' = 0
    /\ h' = H0
    /\ ai_pc' = "dispatch"
    /\ UNCHANGED val

(* apply_intensity reaches group g (4: past the last group) *)
GoToGroup(g) ==
    IF g > 3
    THEN /\ ai_pc' = "done"
         /\ UNCHANGED <<grp, act, retry_attempt, extra_go_tried,
                        reconnect_attempts, val, h>>
    ELSE EnterApply(g, 1)

(* argument tuples: (intensity,), (speed, clockwise), (duration, position) *)
RegularArgs == {<<v>> : v \in IntensityValues}

RotaryArgs == {<<5, TRUE>>}

LinearArgs == {<<2, 5>>}

ArgChoices ==
    [regular : {None, <<5>>},
     rotary  : {None} \cup RotaryArgs,
     linear  : {None} \cup LinearArgs]

NoArgs == [regular |-> None, rotary |-> None, linear |-> None]

(* no call of apply_intensity is running *)
NoCall ==
    /\ ai_pc = "idle"
    /\ ai_args = NoArgs
    /\ grp = 1
    /\ act = 1
    /\ retry_attempt = 1
    /\ extra_go_tried = FALSE
    /\ reconnect_attempts = 0
    /\ val = TRUE
    /\ h = H0
    /\ attempts = <<>>

(* lines 198-199: apply_intensity is entered *)
EnterApplyIntensity(args) ==
    /\ ai_pc = "idle"
    /\ ai_args' = args
    /\ attempts' = <<>>
    /\ GoToGroup(FirstGroupFrom(args, nacts, 1))
    /\ UNCHANGED <<connected, nacts, lastCmd>>

Call(args) ==
    /\ EnterApplyIntensity(args)
    /\ UNCHANGED <<logVars, devVars, sessVars, supVars>>

(* _apply_intensity called on one actuator of role Roles[g] with args *)
CallOne(g, args) ==
    /\ ai_pc = "idle"
    /\ ai_args' = [NoArgs EXCEPT ![Roles[g]] = args]
    /\ EnterApply(g, 1)
    /\ UNCHANGED <<connected, nacts, attempts, lastCmd>>
    /\ UNCHANGED <<logVars, devVars, sessVars, supVars>>

(* _apply_intensity returns v *)
Return(v) ==
    /\ val' = v
    /\ ai_pc' = "ret"

(* lines 237-248: one pass of the while body up to the applicator's end *)
Dispatch(o) ==
    /\ ai_pc = "dispatch"
    /\ retry_attempt <= max_retries
    /\ lastCmd' = CommandFor(Roles[grp], ai_args[Roles[grp]])
    /\ h' = [h EXCEPT !.dispatches = @ + 1,
                      !.dispIdx = Append(@, retry_attempt),
                      !.completedSeen = @ \/ (o = "completed"),
                      !.expiredSeen = @ \/ (o = "expired"),
                      !.recCalls = 0,
                      !.recFails = 0,
                      !.lastOutcome = o,
                      !.steps = @ + 1]
    /\ IF await_with_timeout(o) = "returned"
       THEN /\ Return(TRUE)
            /\ UNCHANGED reconnect_attempts
       ELSE /\ reconnect_attempts' = 1
            /\ ai_pc' = "reconnect"
            /\ UNCHANGED val
    /\ UNCHANGED <<connected, nacts, ai_args, grp, act, retry_attempt,
                   extra_go_tried, attempts>>
    /\ UNCHANGED <<logVars, devVars, sessVars, supVars>>

(* ensure_connected that reconnects whatever the client reports *)
ensure_connected_reconnects_always(o) ==
    CASE o = "completed" -> <<TRUE, TRUE, 1>>
      [] await_with_timeout(o) = "returned" -> <<TRUE, connected, 1>>
      [] OTHER -> <<FALSE, connected, 1>>

(* ensure_connected, lines 154-163:                                        *)
(* <<returned value, connected afterwards, reconnects issued>>             *)
ensure_connected(o) ==
    IF ~connected
    THEN CASE o = "completed" -> <<TRUE, TRUE, 1>>
           [] await_with_timeout(o) = "returned" -> <<TRUE, connected, 1>>
           [] OTHER -> <<FALSE, connected, 1>>
    ELSE <<TRUE, connected, 0>>

(* ensure_connected called on its own (as at line 93), and what the caller *)
(* could observe of it                                                     *)
EnsureConnected(o) ==
    /\ ai_pc = "idle"
    /\ Len(ec_log) < MaxEnsure
    /\ LET res == ensure_connected(o)
       IN /\ connected' = res[2]
          /\ ec_log' = Append(ec_log,
                 [before |-> connected,
                  outcome |-> IF res[3] = 0 THEN "none" ELSE o,
                  issued |-> res[3],
                  ret |-> res[1],
                  after |-> res[2]])
    /\ UNCHANGED <<nacts, ai_pc, ai_args, grp, act, retry_attempt,
                   extra_go_tried, reconnect_attempts, val, h, attempts, lastCmd>>
    /\ UNCHANGED <<hs_pc, hs_err, hs_calls, hs_was_connected, hs_n,
                   target_device, devices>>
    /\ UNCHANGED <<logVars, devVars, supVars>>

(* the extra go without its one-shot flag *)
ExtraGoGranted_no_flag(ok, r, e) == ok /\ r = max_retries

(* the extra go granted one retry early as well *)
ExtraGoGranted_early(ok, r, e) == ok /\ r >= max_retries - 1 /\ ~e

(* line 269: is the extra go granted *)
ExtraGoGranted(ok, r, e) == ok /\ r = max_retries /\ ~e

(* lines 255-272: one pass of the reconnect loop, and what follows it *)
Reconnect(o) ==
    /\ ai_pc = "reconnect"
    /\ reconnect_attempts <= max_reconnect_retries
    /\ LET res == ensure_connected(o)
           ok  == res[1]
       IN /\ connected' = res[2]
          /\ IF ok
             THEN LET grant == ExtraGoGranted(ok, retry_attempt, extra_go_tried)
                      r2 == IF grant THEN retry_attempt ELSE retry_attempt + 1
                  IN /\ extra_go_tried' = (extra_go_tried \/ grant)
                     /\ retry_attempt' = r2
                     /\ h' = [h EXCEPT !.recCalls = @ + 1,
                                       !.grants = @ + (IF grant THEN 1 ELSE 0),
                                       !.steps = @ + 1]
                     /\ IF r2 <= max_retries
                        THEN ai_pc' = "dispatch" /\ UNCHANGED val
                        ELSE Return(FALSE)
                     /\ UNCHANGED reconnect_attempts
             ELSE /\ reconnect_attempts' = reconnect_attempts + 1
                  /\ IF reconnect_attempts + 1 <= max_reconnect_retries
                     THEN /\ UNCHANGED <<ai_pc, val>>
                          /\ h' = [h EXCEPT !.recCalls = @ + 1,
                                            !.recFails = @ + 1,
                                            !.steps = @ + 1]
                     ELSE /\ Return(FALSE)
                          /\ h' = [h EXCEPT !.recCalls = @ + 1,
                                            !.recFails = @ + 1,
                                            !.steps = @ + 1,
                                            !.aborted = TRUE]
                  /\ UNCHANGED <<retry_attempt, extra_go_tried>>
    /\ UNCHANGED <<nacts, ai_args, grp, act, attempts, lastCmd>>
    /\ UNCHANGED <<logVars, devVars, sessVars, supVars>>

(* a failure that ends the whole call instead of the group *)
NextTarget_abort_call(args, n, g, i, ok) ==
    IF ok /\ i < n[Roles[g]]
    THEN <<g, i + 1>>
    ELSE IF ok THEN <<FirstGroupFrom(args, n, g + 1), 1>> ELSE <<4, 1>>

(* lines 201-204 (207-210, 213-216): the loop over a group's actuators *)
NextTarget(args, n, g, i, ok) ==
    IF ok /\ i < n[Roles[g]]
    THEN <<g, i + 1>>
    ELSE <<FirstGroupFrom(args, n, g + 1), 1>>

Advance ==
    /\ ai_pc = "ret"
    /\ attempts' = Append(attempts, [role |-> Roles[grp], idx |-> act, ok |-> val])
    /\ LET t == NextTarget(ai_args, nacts, grp, act, val)
       IN IF t[1] > 3
          THEN /\ ai_pc' = "done"
               /\ UNCHANGED <<grp, act, retry_attempt, extra_go_tried,
                              reconnect_attempts, val, h>>
          ELSE EnterApply(t[1], t[2])
    /\ UNCHANGED <<connected, nacts, ai_args, lastCmd>>
    /\ UNCHANGED <<logVars, devVars, sessVars, supVars>>

(* the transport loses the connection *)
Disconnect ==
    /\ connected
    /\ connected' = FALSE
    /\ UNCHANGED <<nacts, ai_pc, ai_args, grp, act, retry_attempt,
                   extra_go_tried, reconnect_attempts, val, h, attempts, lastCmd>>
    /\ UNCHANGED <<logVars, devVars, sessVars, supVars>>

---------------------------------------------------------------------------
(* ToyClientManager.handshake and scan_devices (lines 123-152)             *)

HandshakeOver == hs_pc \in {"idle", "done", "failed"}

(* handshake raises exc *)
HS_Raise(exc) ==
    /\ hs_pc' = "failed"
    /\ hs_err' = exc

(* lines 135-143: the connector is set by __init__ (line 121), so the      *)
(* test of line 136 fails; an existing connection is reset first           *)
HS_Begin ==
    /\ HandshakeOver
    /\ ai_pc = "idle"
    /\ hs_n < MaxHandshakes
    /\ hs_n' = hs_n + 1
    /\ hs_calls' = <<>>
    /\ hs_err' = "none"
    /\ hs_was_connected' = connected
    /\ hs_pc' = IF connected THEN "stop_all" ELSE "connect"
    /\ UNCHANGED <<target_device, devices, ec_log>>
    /\ UNCHANGED <<applyVars, logVars, devVars, supVars>>

(* line 142: client.stop_all() under await_with_timeout *)
HS_StopAll(o) ==
    /\ hs_pc = "stop_all"
    /\ hs_calls' = Append(hs_calls, <<"stop_all", o>>)
    /\ IF await_with_timeout(o) = "returned"
       THEN hs_pc' = "disconnect" /\ UNCHANGED hs_err
       ELSE HS_Raise(await_with_timeout(o))
    /\ UNCHANGED <<hs_was_connected, hs_n, target_device, devices, ec_log>>
    /\ UNCHANGED <<applyVars, logVars, devVars, supVars>>

(* line 143: client.disconnect() *)
HS_Disconnect(o) ==
    /\ hs_pc = "disconnect"
    /\ hs_calls' = Append(hs_calls, <<"disconnect", o>>)
    /\ IF o = "completed"
       THEN /\ connected' = FALSE
            /\ hs_pc' = "connect"
            /\ UNCHANGED hs_err
       ELSE /\ HS_Raise("Exception")
            /\ UNCHANGED connected
    /\ UNCHANGED <<hs_was_connected, hs_n, target_device, devices, ec_log>>
    /\ UNCHANGED <<nacts, ai_pc, ai_args, grp, act, retry_attempt,
                   extra_go_tried, reconnect_attempts, val, h, attempts, lastCmd>>
    /\ UNCHANGED <<logVars, devVars, supVars>>

(* a failed connect that is logged and passed over *)
HS_Connect_swallows_failure(o) ==
    /\ hs_pc = "connect"
    /\ hs_calls' = Append(hs_calls, <<"connect", o>>)
    /\ connected' = (o = "completed")
    /\ hs_pc' = "scan"
    /\ UNCHANGED hs_err
    /\ UNCHANGED <<hs_was_connected, hs_n, target_device, devices, ec_log>>
    /\ UNCHANGED <<nacts, ai_pc, ai_args, grp, act, retry_attempt,
                   extra_go_tried, reconnect_attempts, val, h, attempts, lastCmd>>
    /\ UNCHANGED <<logVars, devVars, supVars>>

(* lines 145-149: client.connect(connector); any Exception becomes a       *)
(* WebsocketTimeoutError                                                   *)
HS_Connect(o) ==
    /\ hs_pc = "connect"
    /\ hs_calls' = Append(hs_calls, <<"connect", o>>)
    /\ IF o = "completed"
       THEN /\ connected' = TRUE
            /\ hs_pc' = "scan"
            /\ UNCHANGED hs_err
       ELSE /\ HS_Raise("WebsocketTimeoutError")
            /\ UNCHANGED connected
    /\ UNCHANGED <<hs_was_connected, hs_n, target_device, devices, ec_log>>
    /\ UNCHANGED <<nacts, ai_pc, ai_args, grp, act, retry_attempt,
                   extra_go_tried, reconnect_attempts, val, h, attempts, lastCmd>>
    /\ UNCHANGED <<logVars, devVars, supVars>>

(* the devices a server can announce, in the order it announces them *)
KnownDevices == <<"dev", "dev2">>

(* client.devices after a scan that ends with found devices known *)
DevicesFound(found) == SubSeq(KnownDevices, 1, found)

(* lines 151-152 and scan_devices (123-133) with found devices on the      *)
(* client afterwards: the first of them becomes the target                 *)
HS_Scan(found) ==
    /\ hs_pc = "scan"
    /\ IF ~connected
       THEN /\ HS_Raise("ValueError")
            /\ UNCHANGED <<hs_calls, target_device, devices>>
       ELSE /\ hs_calls' = hs_calls \o << <<"start_scanning", "completed">>,
                                          <<"stop_scanning", "completed">> >>
            /\ devices' = DevicesFound(found)
            /\ IF found = 0
               THEN /\ HS_Raise("IndexError")
                    /\ UNCHANGED target_device
               ELSE /\ target_device' = DevicesFound(found)[1]
                    /\ hs_pc' = "done"
                    /\ UNCHANGED hs_err
    /\ UNCHANGED <<hs_was_connected, hs_n, ec_log>>
    /\ UNCHANGED <<applyVars, logVars, devVars, supVars>>

(* apply_normal_intensity(self.target_device, v), lines 165-173 and 198:   *)
(* the debug message of line 198 reads device.name, which raises           *)
(* AttributeError on None                                                  *)
ApplyOnTarget(v) ==
    /\ HandshakeOver
    /\ IF target_device = "null"
       THEN /\ ai_pc = "idle"
            /\ ai_pc' = "raised"
            /\ ai_args' = [NoArgs EXCEPT !.regular = <<v>>]
            /\ UNCHANGED <<connected, nacts, grp, act, retry_attempt,
                           extra_go_tried, reconnect_attempts, val, h,
                           attempts, lastCmd>>
       ELSE EnterApplyIntensity([NoArgs EXCEPT !.regular = <<v>>])
    /\ UNCHANGED <<logVars, devVars, sessVars, supVars>>

---------------------------------------------------------------------------
(* The log file and TF2ConsoleReader.start_watching (console_handler.py)   *)

NL == "\n"

Whitespace == {" ", NL}

(* the k-th appended line is written with the k-th letter *)
Letters == <<"a", "b", "c", "d">>

(* a line, then its newline *)
LineShapes(c) == {<<>>, <<" ">>, <<c>>, <<c, c>>}

InitialContents == {<<>>, <<"z", NL>>}

ControlKinds == {"NoOp", "Kill", "Other"}

RECURSIVE LStrip(_)
LStrip(s) == IF s # <<>> /\ Head(s) \in Whitespace THEN LStrip(Tail(s)) ELSE s

RECURSIVE RStrip(_)
RStrip(s) ==
    IF s # <<>> /\ s[Len(s)] \in Whitespace
    THEN RStrip(SubSeq(s, 1, Len(s) - 1))
    ELSE s

(* str.strip() *)
Strip(s) == RStrip(LStrip(s))

FirstNL(s) ==
    IF \E i \in 1..Len(s) : s[i] = NL
    THEN CHOOSE i \in 1..Len(s) : s[i] = NL /\ \A j \in 1..(i - 1) : s[j] # NL
    ELSE 0

(* str.splitlines() *)
RECURSIVE SplitLines(_)
SplitLines(s) ==
    IF s = <<>> THEN <<>>
    ELSE LET i == FirstNL(s)
         IN IF i = 0 THEN <<s>>
            ELSE <<SubSeq(s, 1, i - 1)>> \o SplitLines(SubSeq(s, i + 1, Len(s)))

(* line 81: lines the for loop skips *)
IsBlank(line) == Len(Strip(line)) < 1

(* ---- re.match with CONSOLE_CHAT_REX and CONSOLE_KILL_REX                 *)
(* (game_event_messages.py, lines 9 and 11).  A match is the first one a   *)
(* backtracking matcher finds: every optional group is tried present       *)
(* before absent and every greedy repetition longest first, the earlier    *)
(* item of the pattern taking precedence.                                  *)

(* the literal lit stands in s at position p *)
LitAt(s, p, lit) ==
    /\ p >= 1
    /\ p + Len(lit) - 1 <= Len(s)
    /\ \A k \in 1..Len(lit) : s[p + k - 1] = lit[k]

(* a whitespace character stands in s at position p *)
WsAt(s, p) == p >= 1 /\ p <= Len(s) /\ s[p] \in Whitespace

(* the dot matches every character of s from p to q *)
DotsAt(s, p, q) == \A k \in p..q : s[k] # NL

(* the longest run of whitespace at position p *)
RECURSIVE WsRun(_, _)
WsRun(s, p) == IF WsAt(s, p) THEN 1 + WsRun(s, p + 1) ELSE 0

DeadTag == <<"*", "D", "E", "A", "D", "*">>

TeamTag == <<"(", "T", "E", "A", "M", ")">>

CritTag == <<"(", "c", "r", "i", "t", ")">>

KilledWord == <<"k", "i", "l", "l", "e", "d">>

WithWord == <<"w", "i", "t", "h">>

(* the choices <<e, q, c>> for the rest of the chat pattern when group 3   *)
(* starts at p: group 3 ends at e, the optional whitespace before the      *)
(* colon takes q characters, the whitespace after it takes c (1 or 2),     *)
(* group 4 takes what is left                                              *)
ChatTails(s, p) ==
    {t \in ((p - 1)..Len(s)) \X {0, 1} \X {1, 2} :
        /\ DotsAt(s, p, t[1])
        /\ t[2] = 1 => WsAt(s, t[1] + 1)
        /\ LitAt(s, t[1] + t[2] + 1, <<":">>)
        /\ \A k \in 1..t[3] : WsAt(s, t[1] + t[2] + 1 + k)
        /\ DotsAt(s, t[1] + t[2] + 2 + t[3], Len(s))}

(* every way CONSOLE_CHAT_REX matches s: <<d, a, t, b, p4, e, q, c>> with  *)
(* d, t: the DEAD and TEAM groups took part; a, b: the lengths of the two  *)
(* whitespace runs; p4: where group 3 starts                               *)
ChatMatches(s) ==
    UNION { UNION { UNION { UNION {
        { <<d, a, t, b, 1 + 6 * d + a + 6 * t + b, x[1], x[2], x[3]>> :
              x \in ChatTails(s, 1 + 6 * d + a + 6 * t + b) }
        : b \in 0..WsRun(s, 1 + 6 * d + a + 6 * t) }
        : t \in {k \in {0, 1} : k = 1 => LitAt(s, 1 + 6 * d + a, TeamTag)} }
        : a \in 0..WsRun(s, 1 + 6 * d) }
        : d \in {k \in {0, 1} : k = 1 => LitAt(s, 1, DeadTag)} }

(* m1 is tried before m2: the first choice in which they differ is larger *)
TriedBefore(m1, m2, idx) ==
    \E i \in idx :
        /\ m1[i] > m2[i]
        /\ \A j \in idx : j < i => m1[j] = m2[j]

(* the match re.match returns, None if there is none *)
FirstMatch(ms, idx) ==
    IF ms = {} THEN None
    ELSE CHOOSE m \in ms : \A m2 \in ms : m2 = m \/ TriedBefore(m, m2, idx)

ChatMatch(s) == FirstMatch(ChatMatches(s), {1, 2, 3, 4, 6, 7, 8})

(* where group 1 of CONSOLE_KILL_REX can end: whitespace, "killed" and     *)
(* whitespace follow                                                       *)
KillEnds1(s) ==
    {e \in 0..Len(s) :
        WsAt(s, e + 1) /\ LitAt(s, e + 2, KilledWord) /\ WsAt(s, e + 8)}

(* where group 2 can end when group 1 ended at e1: whitespace, "with" and  *)
(* whitespace follow                                                       *)
KillEnds2(s, e1) ==
    {e \in (e1 + 8)..Len(s) :
        WsAt(s, e + 1) /\ LitAt(s, e + 2, WithWord) /\ WsAt(s, e + 6)}

(* <<e, k>>: where group 3 can end when group 2 ended at e2, and whether   *)
(* the crit group takes part: a full stop follows, then the crit group or  *)
(* the end of the line                                                     *)
KillEnds3(s, e2) ==
    {x \in ((e2 + 6)..Len(s)) \X {0, 1} :
        /\ LitAt(s, x[1] + 1, <<".">>)
        /\ IF x[2] = 1
           THEN /\ WsAt(s, x[1] + 2)
                /\ LitAt(s, x[1] + 3, CritTag)
                /\ x[1] + 8 = Len(s)
           ELSE x[1] + 1 = Len(s)
        /\ DotsAt(s, 1, x[1])}

(* every way CONSOLE_KILL_REX matches s: <<e1, e2, e3, k>>: the ends of    *)
(* groups 1-3, and whether the crit group took part                        *)
KillMatches(s) ==
    UNION { UNION {
        { <<e1, e2, x[1], x[2]>> : x \in KillEnds3(s, e2) }
        : e2 \in KillEnds2(s, e1) }
        : e1 \in KillEnds1(s) }

KillMatch(s) == FirstMatch(KillMatches(s), {1, 2, 3, 4})

(* ConsoleChatMessage.__init__, lines 61-67 *)
ConsoleChatMessage(s, m) ==
    [kind |-> "ConsoleChatMessage",
     value |-> "Chat Message Regex Match",
     dead |-> m[1] = 1,
     team |-> m[3] = 1,
     author |-> SubSeq(s, m[5], m[6]),
     content |-> SubSeq(s, m[6] + m[7] + 2 + m[8], Len(s))]

(* ConsoleKillMessage.__init__, lines 42-48 *)
ConsoleKillMessage(s, m) ==
    [kind |-> "ConsoleKillMessage",
     value |-> "Kill Event Regex Match",
     killer |-> SubSeq(s, 1, m[1]),
     victim |-> SubSeq(s, m[1] + 9, m[2]),
     weapon |-> SubSeq(s, m[2] + 7, m[3]),
     crit |-> m[4] = 1]

(* console_handler.py, lines 83-90: the message built for a line, the chat *)
(* pattern tried first                                                     *)
MessageFor(line) ==
    IF ChatMatch(line) # None THEN ConsoleChatMessage(line, ChatMatch(line))
    ELSE IF KillMatch(line) # None THEN ConsoleKillMessage(line, KillMatch(line))
    ELSE [kind |-> "ConsoleEventMessage", value |-> line]

(* a read that leaves the cursor where it was *)
ReadFrom_no_advance(f, pos) ==
    IF pos <= Len(f) THEN <<SubSeq(f, pos + 1, Len(f)), pos>>
    ELSE <<<<>>, pos>>

(* _file_handle.read(): <<text read, tell() afterwards>> *)
ReadFrom(f, pos) ==
    IF pos <= Len(f) THEN <<SubSeq(f, pos + 1, Len(f)), Len(f)>>
    ELSE <<<<>>, pos>>

(* lines 77-81: the lines of _data that lead to a message *)
LinesToPublish(text) == SelectSeq(SplitLines(Strip(text)), LAMBDA l : ~IsBlank(l))

(* lines 74-76: the cursor after the shrink check *)
SnapCursor(pos, sz) == IF pos > sz THEN sz ELSE pos

(* Queue.put on a queue of maxsize cap would block *)
Full(q, cap) == cap > 0 /\ Len(q) >= cap

(* a cursor that starts at the beginning of the file *)
LW_InitStat_from_start ==
    /\ lw_pc = "init"
    /\ seek_offset' = 0
    /\ tailed' = <<>>
    /\ lw_pc' = "open"
    /\ UNCHANGED <<readSince, kill_at_top>>
    /\ UNCHANGED <<file, fh, cursor, pending, output_queue, log_cq,
                   log_unfinished, published, truncs, nappends, nctl>>
    /\ UNCHANGED <<applyVars, devVars, sessVars, supVars>>

(* line 65 *)
LW_InitStat ==
    /\ lw_pc = "init"
    /\ seek_offset' = Len(file)
    /\ tailed' = <<>>
    /\ lw_pc' = "open"
    /\ UNCHANGED <<readSince, kill_at_top>>
    /\ UNCHANGED <<file, fh, cursor, pending, output_queue, log_cq,
                   log_unfinished, published, truncs, nappends, nctl>>
    /\ UNCHANGED <<applyVars, devVars, sessVars, supVars>>

(* lines 69-70 *)
LW_Open ==
    /\ lw_pc = "open"
    /\ fh' = "open"
    /\ cursor' = seek_offset
    /\ lw_pc' = "stat"
    /\ UNCHANGED <<readSince, kill_at_top>>
    /\ UNCHANGED <<file, seek_offset, pending, output_queue, log_cq,
                   log_unfinished, published, tailed, truncs, nappends, nctl>>
    /\ UNCHANGED <<applyVars, devVars, sessVars, supVars>>

(* lines 73-76 *)
LW_Stat ==
    /\ lw_pc = "stat"
    /\ cursor' = SnapCursor(cursor, Len(file))
    /\ lw_pc' = "read"
    /\ kill_at_top' = (log_cq # <<>> /\ Head(log_cq) = "Kill")
    /\ UNCHANGED readSince
    /\ UNCHANGED <<file, fh, seek_offset, pending, output_queue, log_cq,
                   log_unfinished, published, tailed, truncs, nappends, nctl>>
    /\ UNCHANGED <<applyVars, devVars, sessVars, supVars>>

(* lines 77-80 *)
LW_Read ==
    /\ lw_pc = "read"
    /\ LET r == ReadFrom(file, cursor)
           lines == LinesToPublish(r[1])
       IN /\ cursor' = r[2]
          /\ pending' = lines
          /\ lw_pc' = IF lines = <<>> THEN "control" ELSE "publish"
    /\ readSince' = TRUE
    /\ UNCHANGED kill_at_top
    /\ UNCHANGED <<file, fh, seek_offset, output_queue, log_cq,
                   log_unfinished, published, tailed, truncs, nappends, nctl>>
    /\ UNCHANGED <<applyVars, devVars, sessVars, supVars>>

(* a put that gives up on a full queue and goes on with the next line *)
LW_Publish_drops_when_full ==
    /\ lw_pc = "publish"
    /\ IF Full(output_queue, out_maxsize)
       THEN UNCHANGED <<output_queue, published>>
       ELSE /\ output_queue' = Append(output_queue, MessageFor(Head(pending)))
            /\ published' = Append(published, MessageFor(Head(pending)))
    /\ pending' = Tail(pending)
    /\ lw_pc' = IF Tail(pending) = <<>> THEN "control" ELSE "publish"
    /\ UNCHANGED <<readSince, kill_at_top>>
    /\ UNCHANGED <<file, fh, cursor, seek_offset, log_cq, log_unfinished,
                   tailed, truncs, nappends, nctl>>
    /\ UNCHANGED <<applyVars, devVars, sessVars, supVars>>

(* lines 83-95: one pass of the for loop; put blocks while the queue is full *)
LW_Publish ==
    /\ lw_pc = "publish"
    /\ ~Full(output_queue, out_maxsize)
    /\ output_queue' = Append(output_queue, MessageFor(Head(pending)))
    /\ published' = Append(published, MessageFor(Head(pending)))
    /\ pending' = Tail(pending)
    /\ lw_pc' = IF Tail(pending) = <<>> THEN "control" ELSE "publish"
    /\ UNCHANGED <<readSince, kill_at_top>>
    /\ UNCHANGED <<file, fh, cursor, seek_offset, log_cq, log_unfinished,
                   tailed, truncs, nappends, nctl>>
    /\ UNCHANGED <<applyVars, devVars, sessVars, supVars>>

(* a KillMessage that ends the loop before it is acknowledged *)
LogAcks_kill_unacked(msg) == IF msg = "Kill" THEN 0 ELSE 1

(* task_done calls start_watching makes for a control message (101-108) *)
LogAcks(msg) == 1

(* line 99: the message ends the loop *)
LogBreaks(msg) == msg = "Kill"

(* lines 97-112: _check_control, the acknowledgment, the sleep; on a       *)
(* KillMessage the break and the close of the file handle                  *)
LW_Control ==
    /\ lw_pc = "control"
    /\ IF log_cq = <<>>
       THEN /\ lw_pc' = "stat"
            /\ UNCHANGED <<log_cq, log_unfinished, fh>>
       ELSE LET msg == Head(log_cq)
            IN /\ log_cq' = Tail(log_cq)
               /\ log_unfinished' = log_unfinished - LogAcks(msg)
               /\ IF LogBreaks(msg)
                  THEN lw_pc' = "exited" /\ fh' = "closed"
                  ELSE lw_pc' = "stat" /\ UNCHANGED fh
    /\ UNCHANGED <<file, cursor, seek_offset, pending, output_queue,
                   published, tailed, truncs, nappends, readSince, nctl,
                   kill_at_top>>
    /\ UNCHANGED <<applyVars, devVars, sessVars, supVars>>

(* the game appends one whole line to the file *)
AppendLine(line) ==
    /\ nappends < MaxAppends
    /\ file' = file \o line \o <<NL>>
    /\ tailed' = Append(tailed, line)
    /\ nappends' = nappends + 1
    /\ readSince' = FALSE
    /\ UNCHANGED kill_at_top
    /\ UNCHANGED <<fh, cursor, seek_offset, lw_pc, pending, output_queue,
                   log_cq, log_unfinished, published, truncs, nctl>>
    /\ UNCHANGED <<applyVars, devVars, sessVars, supVars>>

(* the file is truncated to zero length (rotation) *)
Truncate ==
    /\ truncs < MaxTruncs
    /\ file' = <<>>
    /\ tailed' = <<>>
    /\ truncs' = truncs + 1
    /\ readSince' = FALSE
    /\ UNCHANGED kill_at_top
    /\ UNCHANGED <<fh, cursor, seek_offset, lw_pc, pending, output_queue,
                   log_cq, log_unfinished, published, nappends, nctl>>
    /\ UNCHANGED <<applyVars, devVars, sessVars, supVars>>

(* a producer puts a control message (main, line 149: the KillMessage) *)
PutLogControl(kind) ==
    /\ nctl < MaxCtl
    /\ log_cq' = Append(log_cq, kind)
    /\ log_unfinished' = log_unfinished + 1
    /\ nctl' = nctl + 1
    /\ UNCHANGED <<readSince, kill_at_top>>
    /\ UNCHANGED <<file, fh, cursor, seek_offset, lw_pc, pending, output_queue,
                   published, tailed, truncs, nappends>>
    /\ UNCHANGED <<applyVars, devVars, sessVars, supVars>>

(* main, lines 135-137: the consumer takes one event *)
GetOutput ==
    /\ output_queue # <<>>
    /\ output_queue' = Tail(output_queue)
    /\ UNCHANGED <<readSince, kill_at_top>>
    /\ UNCHANGED <<file, fh, cursor, seek_offset, lw_pc, pending, log_cq,
                   log_unfinished, published, tailed, truncs, nappends, nctl>>
    /\ UNCHANGED <<applyVars, devVars, sessVars, supVars>>

(* main, lines 117-129: the init DummyMessage is queued before the thread starts *)
InitLogVars ==
    /\ file \in InitialContents
    /\ fh = "unopened"
    /\ cursor = 0
    /\ seek_offset = 0
    /\ lw_pc = "init"
    /\ pending = <<>>
    /\ output_queue = <<>>
    /\ log_cq = <<"NoOp">>
    /\ log_unfinished = 1
    /\ published = <<>>
    /\ tailed = <<>>
    /\ truncs = 0
    /\ nappends = 0
    /\ readSince = FALSE
    /\ nctl = 0
    /\ kill_at_top = FALSE

LogWorkerStep ==
    \/ LW_InitStat
    \/ LW_Open
    \/ LW_Stat
    \/ LW_Read
    \/ LW_Publish
    \/ LW_Control

(* an exception raised by stat (65, 73), open (69), read (77), the         *)
(* classification (83-90) or put (92) leaves start_watching at once; it is *)
(* caught at line 28 of tf2_console_handler and the thread ends            *)
LW_Fault ==
    /\ lw_pc \in {"init", "open", "stat", "read", "publish"}
    /\ lw_pc' = "faulted"
    /\ UNCHANGED <<file, fh, cursor, seek_offset, pending, output_queue, log_cq,
                   log_unfinished, published, tailed, truncs, nappends,
                   readSince, nctl, kill_at_top>>
    /\ UNCHANGED <<applyVars, devVars, sessVars, supVars>>

(* the worker thread has ended *)
LogWorkerDead == lw_pc \in {"exited", "faulted"}

---------------------------------------------------------------------------
(* main of console_handler.py (lines 116-155), after it started the thread *)

(* a join that returns while a control message is unacknowledged *)
Sup_JoinInit_returns_at_once ==
    /\ sup_pc = "join_init"
    /\ sup_pc' = "consume"
    /\ UNCHANGED <<out_maxsize, toy_pc>>
    /\ UNCHANGED <<applyVars, logVars, devVars, sessVars>>

(* line 131: control_queue.join() *)
Sup_JoinInit ==
    /\ sup_pc = "join_init"
    /\ log_unfinished = 0
    /\ sup_pc' = "consume"
    /\ UNCHANGED <<out_maxsize, toy_pc>>
    /\ UNCHANGED <<applyVars, logVars, devVars, sessVars>>

(* lines 133-142: one event is taken from the output queue *)
Sup_Get ==
    /\ sup_pc = "consume"
    /\ GetOutput

(* lines 143-144: KeyboardInterrupt ends the consumer loop *)
Sup_Interrupt ==
    /\ sup_pc = "consume"
    /\ sup_pc' = "check_alive"
    /\ UNCHANGED <<out_maxsize, toy_pc>>
    /\ UNCHANGED <<applyVars, logVars, devVars, sessVars>>

(* lines 146, 151-152: _thread.is_alive() *)
Sup_CheckAlive ==
    /\ sup_pc = "check_alive"
    /\ sup_pc' = IF LogWorkerDead THEN "thread_join" ELSE "put_kill"
    /\ UNCHANGED <<out_maxsize, toy_pc>>
    /\ UNCHANGED <<applyVars, logVars, devVars, sessVars>>

(* line 149: the KillMessage is put *)
Sup_PutKill ==
    /\ sup_pc = "put_kill"
    /\ log_cq' = Append(log_cq, "Kill")
    /\ log_unfinished' = log_unfinished + 1
    /\ nctl' = nctl + 1
    /\ sup_pc' = "join_kill"
    /\ UNCHANGED <<out_maxsize, toy_pc>>
    /\ UNCHANGED <<file, fh, cursor, seek_offset, lw_pc, pending, output_queue,
                   published, tailed, truncs, nappends, readSince, kill_at_top>>
    /\ UNCHANGED <<applyVars, devVars, sessVars>>

(* line 150: control_queue.join() *)
Sup_JoinKill ==
    /\ sup_pc = "join_kill"
    /\ log_unfinished = 0
    /\ sup_pc' = "thread_join"
    /\ UNCHANGED <<out_maxsize, toy_pc>>
    /\ UNCHANGED <<applyVars, logVars, devVars, sessVars>>

(* line 155: _thread.join() *)
Sup_ThreadJoin ==
    /\ sup_pc = "thread_join"
    /\ LogWorkerDead
    /\ sup_pc' = "done"
    /\ UNCHANGED <<out_maxsize, toy_pc>>
    /\ UNCHANGED <<applyVars, logVars, devVars, sessVars>>

---------------------------------------------------------------------------
(* The device worker handle_toy_client (toy_handler.py), from the point    *)
(* where it enters its loop (line 56)                                      *)

(* NormalActuatorSetIntensityMessage (its target is NORMAL unless a        *)
(* producer changed it) and NormalActuatorGetIntensityMessage              *)
DeviceMessages ==
    { [type |-> "SetIntensity", target |-> "NORMAL", value |-> 17],
      [type |-> "SetIntensity", target |-> "ROTARY", value |-> 5],
      [type |-> "GetIntensity", target |-> "ANY", value |-> 0] }

(* task_done calls the loop makes for a control message (lines 63-72):     *)
(* the break of line 65 leaves the loop before line 72                     *)
DevAcks(msg) == IF msg = "Kill" THEN 0 ELSE 1

(* a control check that goes on to the message queue after a KillMessage  *)
DW_Control_ignores_kill ==
    /\ dw_pc = "control"
    /\ IF dev_cq = <<>>
       THEN /\ dw_pc' = "message"
            /\ UNCHANGED <<dev_cq, dev_unfinished>>
       ELSE LET msg == Head(dev_cq)
            IN /\ dev_cq' = Tail(dev_cq)
               /\ dev_unfinished' = dev_unfinished - DevAcks(msg)
               /\ dw_pc' = "message"
    /\ UNCHANGED <<dev_mq, msg_unfinished, elapsed, dev_nctl, dev_nmsg>>
    /\ UNCHANGED client_calls
    /\ UNCHANGED <<since_check, since_apply, check_flip, timing>>
    /\ UNCHANGED <<applyVars, logVars, sessVars, supVars>>

(* lines 61-74 *)
DW_Control ==
    /\ dw_pc = "control"
    /\ IF dev_cq = <<>>
       THEN /\ dw_pc' = "message"
            /\ UNCHANGED <<dev_cq, dev_unfinished>>
       ELSE LET msg == Head(dev_cq)
            IN /\ dev_cq' = Tail(dev_cq)
               /\ dev_unfinished' = dev_unfinished - DevAcks(msg)
               /\ dw_pc' = IF msg = "Kill" THEN "teardown" ELSE "message"
    /\ UNCHANGED <<dev_mq, msg_unfinished, elapsed, dev_nctl, dev_nmsg>>
    /\ UNCHANGED client_calls
    /\ UNCHANGED <<since_check, since_apply, check_flip, timing>>
    /\ UNCHANGED <<applyVars, logVars, sessVars, supVars>>

(* line 91 *)
CheckDue(e) == e > CheckPeriod

(* lines 76-94 with an empty message_queue: the scheduled connection check *)
DW_Housekeeping(o) ==
    /\ dw_pc = "message"
    /\ dev_mq = <<>>
    /\ IF CheckDue(elapsed)
       THEN /\ connected' = ensure_connected(o)[2]
            /\ elapsed' = 0
            /\ since_check' = IF timing THEN 0 ELSE since_check
            /\ check_flip' = IF timing THEN ~check_flip ELSE check_flip
       ELSE UNCHANGED <<connected, elapsed, since_check, check_flip>>
    /\ dw_pc' = "control"
    /\ UNCHANGED <<dev_cq, dev_unfinished, dev_mq, msg_unfinished, dev_nctl, dev_nmsg>>
    /\ UNCHANGED <<nacts, ai_pc, ai_args, grp, act, retry_attempt,
                   extra_go_tried, reconnect_attempts, val, h, attempts, lastCmd>>
    /\ UNCHANGED client_calls
    /\ UNCHANGED <<since_apply, timing>>
    /\ UNCHANGED <<logVars, sessVars, supVars>>

(* a command the worker does not apply is dropped without task_done       *)
DW_Message_unacked_when_ignored ==
    /\ dw_pc = "message"
    /\ dev_mq # <<>>
    /\ LET m == Head(dev_mq)
       IN /\ dev_mq' = Tail(dev_mq)
          /\ IF m.type = "SetIntensity" /\ m.target = "NORMAL"
             THEN /\ EnterApplyIntensity([NoArgs EXCEPT !.regular = <<m.value>>])
                  /\ dw_pc' = "applying"
                  /\ UNCHANGED <<msg_unfinished, elapsed>>
             ELSE /\ dw_pc' = "control"
                  /\ UNCHANGED <<msg_unfinished, elapsed, applyVars>>
    /\ UNCHANGED <<dev_cq, dev_unfinished, dev_nctl, dev_nmsg>>
    /\ UNCHANGED client_calls
    /\ UNCHANGED <<since_check, since_apply, check_flip, timing>>
    /\ UNCHANGED <<logVars, sessVars, supVars>>

(* lines 77-82: a set command for a NORMAL target enters                  *)
(* apply_normal_intensity (line 173)                                       *)
DW_Message ==
    /\ dw_pc = "message"
    /\ dev_mq # <<>>
    /\ LET m == Head(dev_mq)
       IN /\ dev_mq' = Tail(dev_mq)
          /\ IF m.type = "SetIntensity" /\ m.target = "NORMAL"
             THEN /\ EnterApplyIntensity([NoArgs EXCEPT !.regular = <<m.value>>])
                  /\ dw_pc' = "applying"
                  /\ UNCHANGED <<msg_unfinished, elapsed>>
             ELSE /\ msg_unfinished' = msg_unfinished - 1
                  /\ dw_pc' = "control"
                  /\ UNCHANGED <<elapsed, applyVars>>
    /\ UNCHANGED <<dev_cq, dev_unfinished, dev_nctl, dev_nmsg>>
    /\ UNCHANGED client_calls
    /\ UNCHANGED <<since_check, since_apply, check_flip, timing>>
    /\ UNCHANGED <<logVars, sessVars, supVars>>

(* an application that leaves _last_connection_check as it was *)
DW_Applied_keeps_last_check ==
    /\ dw_pc = "applying"
    /\ ai_pc = "done"
    /\ ai_pc' = "idle"
    /\ ai_args' = NoArgs
    /\ grp' = 1
    /\ act' = 1
    /\ retry_attempt' = 1
    /\ extra_go_tried' = FALSE
    /\ reconnect_attempts' = 0
    /\ val' = TRUE
    /\ h' = H0
    /\ attempts' = <<>>
    /\ UNCHANGED elapsed
    /\ since_apply' = IF timing THEN 0 ELSE since_apply
    /\ msg_unfinished' = msg_unfinished - 1
    /\ dw_pc' = "control"
    /\ UNCHANGED <<dev_cq, dev_unfinished, dev_mq, dev_nctl, dev_nmsg>>
    /\ UNCHANGED <<connected, nacts, lastCmd>>
    /\ UNCHANGED client_calls
    /\ UNCHANGED <<since_check, check_flip, timing>>
    /\ UNCHANGED <<logVars, sessVars, supVars>>

(* lines 82-88: apply_normal_intensity has returned, its locals are gone *)
DW_Applied ==
    /\ dw_pc = "applying"
    /\ ai_pc = "done"
    /\ ai_pc' = "idle"
    /\ ai_args' = NoArgs
    /\ grp' = 1
    /\ act' = 1
    /\ retry_attempt' = 1
    /\ extra_go_tried' = FALSE
    /\ reconnect_attempts' = 0
    /\ val' = TRUE
    /\ h' = H0
    /\ attempts' = <<>>
    /\ elapsed' = 0
    /\ since_apply' = IF timing THEN 0 ELSE since_apply
    /\ msg_unfinished' = msg_unfinished - 1
    /\ dw_pc' = "control"
    /\ UNCHANGED <<dev_cq, dev_unfinished, dev_mq, dev_nctl, dev_nmsg>>
    /\ UNCHANGED <<connected, nacts, lastCmd>>
    /\ UNCHANGED client_calls
    /\ UNCHANGED <<since_check, check_flip, timing>>
    /\ UNCHANGED <<logVars, sessVars, supVars>>

(* lines 96-107: stop_all, disconnect, the end of the thread *)
DW_Teardown ==
    /\ dw_pc = "teardown"
    /\ client_calls' = client_calls \o <<"stop_all", "disconnect">>
    /\ connected' = FALSE
    /\ dw_pc' = "exited"
    /\ UNCHANGED <<dev_cq, dev_unfinished, dev_mq, msg_unfinished, elapsed,
                   dev_nctl, dev_nmsg>>
    /\ UNCHANGED <<since_check, since_apply, check_flip, timing>>
    /\ UNCHANGED <<nacts, ai_pc, ai_args, grp, act, retry_attempt,
                   extra_go_tried, reconnect_attempts, val, h, attempts, lastCmd>>
    /\ UNCHANGED <<logVars, sessVars, supVars>>

(* an exception other than TimeoutError raised by actuator.command (line   *)
(* 282) or client.reconnect (line 158) is caught nowhere: it leaves        *)
(* run_until_complete (line 82 or 93), the loop and handle_toy_client      *)
DW_Fault ==
    /\ \/ /\ dw_pc = "applying"
          /\ ai_pc = "dispatch" \/ (ai_pc = "reconnect" /\ ~connected)
          /\ ai_pc' = "raised"
       \/ /\ dw_pc = "message"
          /\ dev_mq = <<>>
          /\ CheckDue(elapsed)
          /\ ~connected
          /\ UNCHANGED ai_pc
    /\ dw_pc' = "dead"
    /\ UNCHANGED <<dev_cq, dev_unfinished, dev_mq, msg_unfinished, elapsed,
                   dev_nctl, dev_nmsg, client_calls>>
    /\ UNCHANGED <<since_check, since_apply, check_flip, timing>>
    /\ UNCHANGED <<connected, nacts, ai_args, grp, act, retry_attempt,
                   extra_go_tried, reconnect_attempts, val, h, attempts, lastCmd>>
    /\ UNCHANGED <<logVars, sessVars, supVars>>

(* the worker thread has ended *)
DevWorkerEnded == dw_pc \in {"exited", "dead"}

(* a second passes *)
Tick ==
    /\ ~DevWorkerEnded
    /\ elapsed <= CheckPeriod
    /\ elapsed' = elapsed + 1
    /\ since_check' = IF timing THEN Min(since_check + 1, CheckPeriod + 1) ELSE since_check
    /\ since_apply' = IF timing THEN Min(since_apply + 1, CheckPeriod + 1) ELSE since_apply
    /\ UNCHANGED <<dw_pc, dev_cq, dev_unfinished, dev_mq, msg_unfinished,
                   dev_nctl, dev_nmsg>>
    /\ UNCHANGED client_calls
    /\ UNCHANGED <<check_flip, timing>>
    /\ UNCHANGED <<applyVars, logVars, sessVars, supVars>>

(* a producer puts a control message (main, line 347: the KillMessage) *)
PutDevControl(kind) ==
    /\ dev_nctl < MaxCtl
    /\ dev_cq' = Append(dev_cq, kind)
    /\ dev_unfinished' = dev_unfinished + 1
    /\ dev_nctl' = dev_nctl + 1
    /\ UNCHANGED <<dw_pc, dev_mq, msg_unfinished, elapsed, dev_nmsg>>
    /\ UNCHANGED client_calls
    /\ UNCHANGED <<since_check, since_apply, check_flip, timing>>
    /\ UNCHANGED <<applyVars, logVars, sessVars, supVars>>

(* a producer puts a device message (main, line 342) *)
PutDevMessage(m) ==
    /\ dev_nmsg < MaxMsg
    /\ dev_mq' = Append(dev_mq, m)
    /\ msg_unfinished' = msg_unfinished + 1
    /\ dev_nmsg' = dev_nmsg + 1
    /\ UNCHANGED <<dw_pc, dev_cq, dev_unfinished, elapsed, dev_nctl>>
    /\ UNCHANGED client_calls
    /\ UNCHANGED <<since_check, since_apply, check_flip, timing>>
    /\ UNCHANGED <<applyVars, logVars, sessVars, supVars>>

(* main, lines 303-305, and line 56; no connection check has run and no    *)
(* command was applied, which the observations record as long ago          *)
InitDevVars ==
    /\ dw_pc = "control"
    /\ dev_cq = <<"NoOp">>
    /\ dev_unfinished = 1
    /\ dev_mq = <<>>
    /\ msg_unfinished = 0
    /\ elapsed = 0
    /\ dev_nctl = 0
    /\ dev_nmsg = 0
    /\ client_calls = <<>>
    /\ since_check = CheckPeriod + 1
    /\ since_apply = CheckPeriod + 1
    /\ check_flip = FALSE

---------------------------------------------------------------------------
(* The start of handle_toy_client (lines 38-56) and the start of main of   *)
(* toy_handler.py (lines 302-317)                                          *)

(* lines 38-39: a ToyClientManager is made and handshake is called *)
DW_Handshake ==
    /\ dw_pc = "start"
    /\ hs_pc = "idle"
    /\ HS_Begin

(* line 39: handshake raised; nothing in handle_toy_client catches it and  *)
(* the thread ends                                                         *)
DW_StartFailed ==
    /\ dw_pc = "start"
    /\ hs_pc = "failed"
    /\ dw_pc' = "dead"
    /\ UNCHANGED <<dev_cq, dev_unfinished, dev_mq, msg_unfinished, elapsed,
                   dev_nctl, dev_nmsg, client_calls>>
    /\ UNCHANGED <<since_check, since_apply, check_flip, timing>>
    /\ UNCHANGED <<applyVars, logVars, sessVars, supVars>>

(* lines 40-56 after handshake returned: while no device is known,         *)
(* scan_devices is called again (its lines 124-126 and 133 raise as in     *)
(* handshake); then the target is read (45), its name is used (50), which  *)
(* raises on None, and the loop is entered (56)                            *)
DW_Discover(found) ==
    /\ dw_pc = "start"
    /\ hs_pc = "done"
    /\ IF Len(devices) < 1
       THEN IF ~connected
            THEN /\ dw_pc' = "dead"
                 /\ UNCHANGED <<devices, target_device, elapsed>>
            ELSE /\ devices' = DevicesFound(found)
                 /\ IF found = 0
                    THEN /\ dw_pc' = "dead"
                         /\ UNCHANGED target_device
                    ELSE /\ target_device' = DevicesFound(found)[1]
                         /\ UNCHANGED dw_pc
                 /\ UNCHANGED elapsed
       ELSE /\ dw_pc' = IF target_device = "null" THEN "dead" ELSE "control"
            /\ elapsed' = 0
            /\ UNCHANGED <<devices, target_device>>
    /\ UNCHANGED <<dev_cq, dev_unfinished, dev_mq, msg_unfinished,
                   dev_nctl, dev_nmsg, client_calls>>
    /\ UNCHANGED <<since_check, since_apply, check_flip, timing>>
    /\ UNCHANGED <<hs_pc, hs_err, hs_calls, hs_was_connected, hs_n, ec_log>>
    /\ UNCHANGED <<applyVars, logVars>>
    /\ UNCHANGED supVars

(* line 317: control_queue.join() *)
ToyMain_JoinInit ==
    /\ toy_pc = "join_init"
    /\ dev_unfinished = 0
    /\ toy_pc' = "input"
    /\ UNCHANGED <<sup_pc, out_maxsize>>
    /\ UNCHANGED <<applyVars, logVars, devVars, sessVars>>

---------------------------------------------------------------------------
InitApplyVars ==
    /\ connected = TRUE
    /\ nacts \in [{"regular", "rotary", "linear"} -> 0..MaxAct]
    /\ NoCall
    /\ lastCmd = NoCommand

(* the log worker is not started *)
IdleLogVars == InitLogVars /\ file = <<>>

(* the device worker is not started *)
IdleDevVars == InitDevVars /\ timing = FALSE

(* the session is established (handshake has run, a device is selected)    *)
(* and no handshake is running                                             *)
IdleSessVars ==
    /\ hs_pc = "idle"
    /\ hs_err = "none"
    /\ hs_calls = <<>>
    /\ hs_was_connected = FALSE
    /\ hs_n = 0
    /\ target_device = "dev"
    /\ devices = <<"dev">>
    /\ ec_log = <<>>

(* no supervisor is modelled: the producers and consumers of the queues    *)
(* are free; the reader was given a bounded output queue                   *)
IdleSupVars ==
    /\ sup_pc = "absent"
    /\ out_maxsize = OutCap
    /\ toy_pc = "absent"

InitApply == InitApplyVars /\ IdleLogVars /\ IdleDevVars /\ IdleSessVars /\ IdleSupVars

NextApply ==
    \/ \E args \in ArgChoices : Call(args)
    \/ \E o \in TransportOutcomes : Dispatch(o)
    \/ \E o \in TransportOutcomes : Reconnect(o)
    \/ Advance
    \/ Disconnect

SpecApply == InitApply /\ [][NextApply]_vars

(* _apply_intensity called directly on one actuator *)
InitRetry ==
    /\ InitApply
    /\ nacts = [r \in {"regular", "rotary", "linear"} |-> 1]

NextRetry ==
    \/ \E a \in RegularArgs : CallOne(1, a)
    \/ \E a \in RotaryArgs : CallOne(2, a)
    \/ \E a \in LinearArgs : CallOne(3, a)
    \/ \E o \in TransportOutcomes : Dispatch(o)
    \/ \E o \in TransportOutcomes : Reconnect(o)
    \/ Disconnect

SpecRetry == InitRetry /\ [][NextRetry]_vars

(* ensure_connected called again and again on a connection that drops *)
NextEnsure ==
    \/ \E o \in TransportOutcomes : EnsureConnected(o)
    \/ Disconnect

SpecEnsure == InitApply /\ [][NextEnsure]_vars

(* a new ToyClientManager (lines 111-121): not connected, no target, its   *)
(* handshakes, the calls made on the target and the transport              *)
InitSession ==
    /\ connected = FALSE
    /\ nacts = [r \in {"regular", "rotary", "linear"} |-> 1]
    /\ NoCall
    /\ lastCmd = NoCommand
    /\ hs_pc = "idle"
    /\ hs_err = "none"
    /\ hs_calls = <<>>
    /\ hs_was_connected = FALSE
    /\ hs_n = 0
    /\ target_device = "null"
    /\ devices = <<>>
    /\ ec_log = <<>>
    /\ IdleLogVars
    /\ IdleDevVars
    /\ IdleSupVars

NextSession ==
    \/ HS_Begin
    \/ \E o \in TransportOutcomes \cup {"error"} : HS_StopAll(o)
    \/ \E o \in {"completed", "error"} : HS_Disconnect(o)
    \/ \E o \in {"completed", "error"} : HS_Connect(o)
    \/ \E found \in {0, 1} : HS_Scan(found)
    \/ \E v \in IntensityValues : ApplyOnTarget(v)
    \/ \E o \in TransportOutcomes : Dispatch(o)
    \/ \E o \in TransportOutcomes : Reconnect(o)
    \/ Advance
    \/ Disconnect

SpecSession == InitSession /\ [][NextSession]_vars

(* no apply_intensity call is made *)
IdleApplyVars == InitApplyVars /\ nacts = [r \in {"regular", "rotary", "linear"} |-> 1]

(* the log worker, the file it tails, the producers of control messages    *)
(* and the consumer of its events                                          *)
InitLog == IdleApplyVars /\ InitLogVars /\ IdleDevVars /\ IdleSessVars /\ IdleSupVars

NextLog ==
    \/ LW_InitStat
    \/ LW_Open
    \/ LW_Stat
    \/ LW_Read
    \/ LW_Publish
    \/ LW_Control
    \/ nappends < MaxDrainAppends /\ AppendLine(<<Letters[nappends + 1]>>)
    \/ \E k \in ControlKinds : PutLogControl(k)
    \/ GetOutput

SpecLog == InitLog /\ [][NextLog]_vars

(* the worker thread keeps running; main keeps consuming the output *)
LiveSpecLog == SpecLog /\ WF_vars(LogWorkerStep) /\ WF_vars(GetOutput)

(* lines of console.log as sequences of characters *)
ChatLine ==
    <<"P", "l", "a", "y", "e", "r", "A", " ", ":", " ", "g", "g", " ",
    "w", "p">>

KillLine ==
    <<"P", "l", "a", "y", "e", "r", "A", " ", "k", "i", "l", "l", "e",
    "d", " ", "P", "l", "a", "y", "e", "r", "B", " ", "w", "i", "t",
    "h", " ", "s", "h", "o", "t", "g", "u", "n", ".", " ", "(", "c",
    "r", "i", "t", ")">>

DeadTeamChatLine ==
    <<"*", "D", "E", "A", "D", "*", "(", "T", "E", "A", "M", ")", " ",
    "B", "o", "b", " ", ":", " ", " ", "h", "i">>

PlainKillLine ==
    <<"a", " ", "k", "i", "l", "l", "e", "d", " ", "b", " ", "w", "i",
    "t", "h", " ", "c", ".">>

RawLine ==
    <<"h", "i", " ", "t", "h", "e", "r", "e">>

ClassifiedLines == {ChatLine, KillLine, DeadTeamChatLine, PlainKillLine, RawLine}

(* the log worker tailing a file to which chat, kill and other lines are   *)
(* appended                                                                *)
NextClassify ==
    \/ LW_InitStat
    \/ LW_Open
    \/ LW_Stat
    \/ LW_Read
    \/ LW_Publish
    \/ LW_Control
    \/ \E l \in ClassifiedLines : nappends < MaxDrainAppends /\ AppendLine(l)
    \/ GetOutput

SpecClassify == InitLog /\ [][NextClassify]_vars

(* a line both patterns match *)
BothLine ==
    <<"a", " ", ":", " ", "b", " ", "k", "i", "l", "l", "e", "d", " ", "c", " ", "w", "i", "t", "h", " ",
    "d", ".">>

(* a line that starts with a space *)
IndentedLine == <<" ", "h", "i">>

(* a line of one space *)
BlankLine == <<" ">>

EventLines == {BothLine, PlainKillLine, RawLine, IndentedLine, BlankLine}

(* the log worker tailing a file to which lines of every class, blank      *)
(* lines and indented lines are appended                                   *)
NextEvents ==
    \/ LW_InitStat
    \/ LW_Open
    \/ LW_Stat
    \/ LW_Read
    \/ LW_Publish
    \/ LW_Control
    \/ \E l \in EventLines : nappends < MaxDrainAppends /\ AppendLine(l)
    \/ GetOutput

SpecEvents == InitLog /\ [][NextEvents]_vars

(* the log worker tailing a file that is appended to and rotated *)
NextTail ==
    \/ LW_InitStat
    \/ LW_Open
    \/ LW_Stat
    \/ LW_Read
    \/ LW_Publish
    \/ LW_Control
    \/ \E l \in LineShapes(Letters[nappends + 1]) : AppendLine(l)
    \/ Truncate
    \/ GetOutput

SpecTail == InitLog /\ [][NextTail]_vars

(* main of console_handler.py supervising the log worker, which may fault; *)
(* main builds the output queue without a limit (line 119)                 *)
InitMain ==
    /\ IdleApplyVars
    /\ InitLogVars
    /\ IdleDevVars
    /\ IdleSessVars
    /\ sup_pc = "join_init"
    /\ out_maxsize = 0
    /\ toy_pc = "absent"

NextMain ==
    \/ LW_InitStat
    \/ LW_Open
    \/ LW_Stat
    \/ LW_Read
    \/ LW_Publish
    \/ LW_Control
    \/ LW_Fault
    \/ nappends < MaxDrainAppends /\ AppendLine(<<Letters[nappends + 1]>>)
    \/ Sup_JoinInit
    \/ Sup_Get
    \/ Sup_Interrupt
    \/ Sup_CheckAlive
    \/ Sup_PutKill
    \/ Sup_JoinKill
    \/ Sup_ThreadJoin

SpecMain == InitMain /\ [][NextMain]_vars

(* the device worker, the producers of its queues, the transport and the   *)
(* clock; the worker drives the regular actuators only                     *)
InitDev ==
    /\ InitApplyVars
    /\ nacts.rotary = 0
    /\ nacts.linear = 0
    /\ IdleLogVars
    /\ InitDevVars
    /\ timing = FALSE
    /\ IdleSessVars
    /\ IdleSupVars

NextDev ==
    \/ DW_Control
    \/ \E o \in TransportOutcomes : DW_Housekeeping(o)
    \/ DW_Message
    \/ \E o \in TransportOutcomes : Dispatch(o)
    \/ \E o \in TransportOutcomes : Reconnect(o)
    \/ Advance
    \/ DW_Applied
    \/ DW_Teardown
    \/ Tick
    \/ Disconnect
    \/ \E k \in ControlKinds : PutDevControl(k)
    \/ \E m \in DeviceMessages : PutDevMessage(m)

SpecDev == InitDev /\ [][NextDev]_vars

(* the device worker with a transport that can also raise *)
NextDevFault ==
    \/ NextDev
    \/ DW_Fault

SpecDevFault == InitDev /\ [][NextDevFault]_vars

(* the device worker's loop seen from its queues: a device with one        *)
(* regular actuator, main as the producer of both queues (it puts          *)
(* DummyMessage and KillMessage only), the transport and the clock         *)
InitCycle ==
    /\ InitDev
    /\ nacts.regular = 1

NextCycle ==
    \/ DW_Control
    \/ \E o \in TransportOutcomes : DW_Housekeeping(o)
    \/ DW_Message
    \/ \E o \in TransportOutcomes : Dispatch(o)
    \/ \E o \in TransportOutcomes : Reconnect(o)
    \/ Advance
    \/ DW_Applied
    \/ DW_Teardown
    \/ Tick
    \/ Disconnect
    \/ \E k \in {"NoOp", "Kill"} : PutDevControl(k)
    \/ \E m \in DeviceMessages : PutDevMessage(m)

SpecCycle == InitCycle /\ [][NextCycle]_vars

(* the device worker's loop against the clock: no control message but the  *)
(* init DummyMessage is put, and the times of the connection checks and of *)
(* the applications are recorded                                           *)
InitHealth ==
    /\ InitApplyVars
    /\ nacts = [regular |-> 1, rotary |-> 0, linear |-> 0]
    /\ IdleLogVars
    /\ InitDevVars
    /\ timing = TRUE
    /\ IdleSessVars
    /\ IdleSupVars

NextHealth ==
    \/ DW_Control
    \/ \E o \in TransportOutcomes : DW_Housekeeping(o)
    \/ DW_Message
    \/ \E o \in TransportOutcomes : Dispatch(o)
    \/ \E o \in TransportOutcomes : Reconnect(o)
    \/ Advance
    \/ DW_Applied
    \/ Tick
    \/ Disconnect
    \/ \E m \in DeviceMessages : PutDevMessage(m)

SpecHealth == InitHealth /\ [][NextHealth]_vars

(* both workers from the start of their threads, each with the main that   *)
(* started it and waits at its first join: the thread of the log worker    *)
(* runs start_watching from line 65 on a file that is appended to, the     *)
(* thread of the device worker runs handle_toy_client from line 38 with a  *)
(* client that is not connected yet; no command and no further control     *)
(* message is put                                                          *)
InitStart ==
    /\ connected = FALSE
    /\ nacts = [regular |-> 1, rotary |-> 0, linear |-> 0]
    /\ NoCall
    /\ lastCmd = NoCommand
    /\ InitLogVars
    /\ dw_pc = "start"
    /\ dev_cq = <<"NoOp">>
    /\ dev_unfinished = 1
    /\ dev_mq = <<>>
    /\ msg_unfinished = 0
    /\ elapsed = 0
    /\ dev_nctl = 0
    /\ dev_nmsg = 0
    /\ client_calls = <<>>
    /\ since_check = CheckPeriod + 1
    /\ since_apply = CheckPeriod + 1
    /\ check_flip = FALSE
    /\ timing = FALSE
    /\ hs_pc = "idle"
    /\ hs_err = "none"
    /\ hs_calls = <<>>
    /\ hs_was_connected = FALSE
    /\ hs_n = 0
    /\ target_device = "null"
    /\ devices = <<>>
    /\ ec_log = <<>>
    /\ sup_pc = "join_init"
    /\ out_maxsize = 0
    /\ toy_pc = "join_init"

NextStart ==
    \/ LW_InitStat
    \/ LW_Open
    \/ LW_Stat
    \/ LW_Read
    \/ LW_Publish
    \/ LW_Control
    \/ LW_Fault
    \/ nappends < MaxDrainAppends /\ AppendLine(<<Letters[nappends + 1]>>)
    \/ Sup_JoinInit
    \/ DW_Handshake
    \/ \E o \in {"completed", "error"} : HS_Connect(o)
    \/ \E found \in 0..Len(KnownDevices) : HS_Scan(found)
    \/ DW_StartFailed
    \/ \E found \in 0..Len(KnownDevices) : DW_Discover(found)
    \/ DW_Control
    \/ \E o \in TransportOutcomes : DW_Housekeeping(o)
    \/ ToyMain_JoinInit

SpecStart == InitStart /\ [][NextStart]_vars

---------------------------------------------------------------------------
(* Properties of _apply_intensity (SpecRetry) and apply_intensity          *)
(* (SpecApply).  A dispatch "timed out" when it did not complete inside    *)
(* the per-command timeout: its outcome is "expired" or "raised".          *)

Returned == ai_pc = "ret"

TimedOut(o) == o \in {"expired", "raised"}

(* C1: a call of _apply_intensity in which every dispatched command timed  *)
(* out returns False.                                                      *)
C1_AllTimeoutsReturnFailure ==
    (Returned /\ h.dispatches >= 1 /\ ~h.completedSeen) => val = FALSE

C4_ReconnectFollowsEveryTimeout ==
    (Returned /\ TimedOut(h.lastOutcome))
        => /\ h.recCalls >= 1
           /\ h.recFails = max_reconnect_retries => val = FALSE

(* C9: apply_intensity works through the supplied groups in the order      *)
(* regular, rotary, linear and through each group's actuators in           *)
(* enumeration order; a failure ends its own group only, and every later   *)
(* supplied group is still attempted from its first actuator.              *)
RoleNo(r) == CHOOSE g \in 1..3 : Roles[g] = r

AttemptsOf(r) == SelectSeq(attempts, LAMBDA a : a.role = r)

C9_FailureAbortsOnlyItsGroup ==
    /\ \A k \in 1..Len(attempts) :
          /\ ai_args[attempts[k].role] # None
          /\ attempts[k].idx <= nacts[attempts[k].role]
    /\ \A k \in 1..(Len(attempts) - 1) :
          LET a == attempts[k]
              b == attempts[k + 1]
          IN IF a.ok /\ a.idx < nacts[a.role]
             THEN b.role = a.role /\ b.idx = a.idx + 1
             ELSE RoleNo(b.role) > RoleNo(a.role) /\ b.idx = 1
    /\ Len(attempts) >= 1 => attempts[1].idx = 1
    /\ ai_pc = "done" =>
          \A g \in 1..3 :
             (Supplied(ai_args, g) /\ nacts[Roles[g]] >= 1)
                => LET s == AttemptsOf(Roles[g])
                   IN /\ Len(s) >= 1
                      /\ s[1].idx = 1
                      /\ (\A k \in 1..Len(s) : s[k].ok) => Len(s) = nacts[Roles[g]]
                      /\ \A k \in 1..Len(s) : ~s[k].ok => k = Len(s)

C9_Witness ==
    /\ ai_pc = "done"
    /\ nacts = [regular |-> 2, rotary |-> 2, linear |-> 1]
    /\ Len(attempts) = 3
    /\ attempts[1] = [role |-> "regular", idx |-> 1, ok |-> FALSE]
    /\ attempts[2] = [role |-> "rotary", idx |-> 1, ok |-> FALSE]
    /\ attempts[3] = [role |-> "linear", idx |-> 1, ok |-> TRUE]

(* C10: the value handed to a Normal actuator's command is                 *)
(* min(1, max(0, v)): inside [0, 1], and v itself when v is in range.      *)
C10_IntensityClamped ==
    lastCmd.role = "regular" =>
        LET v == ai_args.regular[1]
            sent == lastCmd.args[1]
        IN /\ sent = Min(Unit, Max(0, v))
           /\ 0 <= sent /\ sent <= Unit
           /\ (0 <= v /\ v <= Unit) => sent = v

C10_Witness ==
    /\ lastCmd = [role |-> "regular", args |-> <<Unit>>]
    /\ ai_args.regular = <<17>>

---------------------------------------------------------------------------
(* Properties of the log worker (SpecLog, LiveSpecLog, SpecTail)           *)

KillQueued == \E i \in 1..Len(log_cq) : log_cq[i] = "Kill"

LogExited == lw_pc = "exited"

(* C6: a KillMessage put on the control queue of the running log worker is *)
(* eventually dequeued, after the messages ahead of it (one per cycle),    *)
(* and acknowledged; the worker then leaves its loop and publishes nothing *)
(* more; if nothing was put after the KillMessage the queue has no         *)
(* unfinished task left, so that a join on it returns.                     *)
C6_ShutdownDrain ==
    /\ [](KillQueued => <>LogExited)
    /\ [][Len(log_cq') >= Len(log_cq) - 1]_vars
    /\ [][LogExited => (LogExited' /\ published' = published)]_vars
    /\ []((LogExited /\ log_cq = <<>>) => log_unfinished = 0)

C6_Witness ==
    /\ LogExited
    /\ log_cq = <<>>
    /\ log_unfinished = 0
    /\ nctl = MaxCtl
    /\ published # <<>>
    /\ fh = "closed"

(* the texts of a sequence of events, and of a sequence of lines *)
Texts(evs) == [i \in 1..Len(evs) |-> Strip(evs[i].value)]

StripAll(lines) == [i \in 1..Len(lines) |-> Strip(lines[i])]

NonEmpty(lines) == SelectSeq(lines, LAMBDA l : Len(l) > 0)

NonBlank(lines) == SelectSeq(lines, LAMBDA l : ~IsBlank(l))

IsPrefix(a, b) == Len(a) <= Len(b) /\ SubSeq(b, 1, Len(a)) = a

(* the worker has read the file to its end and published what it read *)
CaughtUp ==
    /\ lw_pc \in {"stat", "read", "control"}
    /\ fh = "open"
    /\ readSince
    /\ pending = <<>>

Tailing == lw_pc \in {"stat", "read", "publish", "control"}

(* C7 as stated: without truncation every appended non-empty line is       *)
(* published as exactly one event, in file order.                          *)
C7_EveryNonEmptyLineOnce ==
    (Tailing /\ truncs = 0)
        => /\ IsPrefix(Texts(published), StripAll(NonEmpty(tailed)))
           /\ CaughtUp => Texts(published) = StripAll(NonEmpty(tailed))

(* C7 amended: without truncation every appended line that holds a         *)
(* character other than whitespace is published as exactly one event, in   *)
(* file order: what is published is always a prefix of these lines, and is *)
(* all of them once the worker has read to the end of the file.            *)
C7_EveryNonBlankLineOnce ==
    (Tailing /\ truncs = 0)
        => /\ IsPrefix(Texts(published), StripAll(NonBlank(tailed)))
           /\ CaughtUp => Texts(published) = StripAll(NonBlank(tailed))

C7_Witness ==
    /\ CaughtUp
    /\ truncs = 0
    /\ tailed = << <<"a">>, <<"b", "b">> >>
    /\ published = <<MessageFor(<<"a">>), MessageFor(<<"b", "b">>)>>

(* the events that carry the character c *)
EventsWith(c) ==
    SelectSeq(published, LAMBDA e : \E i \in 1..Len(e.value) : e.value[i] = c)

(* C8: after a truncation to zero length and the append of one line,       *)
(* whether or not a poll fell between the two, exactly one event is        *)
(* published for that line, and it carries the whole line.                 *)
C8_RotationYieldsOneEvent ==
    (/\ truncs >= 1
     /\ Len(tailed) = 1
     /\ ~IsBlank(tailed[1])
     /\ CaughtUp)
        => LET evs == EventsWith(Letters[nappends])
           IN /\ Len(evs) = 1
              /\ evs[1].value = tailed[1]

---------------------------------------------------------------------------
(* Properties of the control queues of both workers                        *)

(* C5: every control message a worker dequeued has been acknowledged with  *)
(* one task_done, a KillMessage before the worker leaves its loop: the     *)
(* unfinished count of each control queue is the number of messages still  *)
(* queued.                                                                 *)
C5_DequeuedControlMessagesAcked ==
    /\ log_unfinished = Len(log_cq)
    /\ dev_unfinished = Len(dev_cq)

---------------------------------------------------------------------------
(* Properties of ensure_connected (SpecEnsure)                             *)

(* C11: called on a client that reports disconnected, ensure_connected     *)
(* issues exactly one reconnect and returns TRUE exactly when the client   *)
(* is connected afterwards; it returns FALSE when the reconnect timed out. *)
C11_ReturnsWhetherReconnected ==
    \A i \in DOMAIN ec_log :
        ~ec_log[i].before =>
            /\ ec_log[i].issued = 1
            /\ ec_log[i].ret = ec_log[i].after
            /\ ec_log[i].outcome \in {"expired", "raised"} => ~ec_log[i].ret

(* C12: called on a client that reports connected, ensure_connected issues *)
(* no reconnect, returns TRUE and leaves the client connected, however     *)
(* often it is called.                                                     *)
C12_ConnectedIsNoOp ==
    \A i \in DOMAIN ec_log :
        ec_log[i].before =>
            /\ ec_log[i].issued = 0
            /\ ec_log[i].ret
            /\ ec_log[i].after

C12_Witness ==
    /\ Len(ec_log) = MaxEnsure
    /\ \A i \in DOMAIN ec_log : ec_log[i].before
    /\ connected

---------------------------------------------------------------------------
(* Properties of the log worker's exits and of its supervisor (SpecMain)   *)

(* C13: whenever start_watching has stopped running, by a KillMessage or   *)
(* by an exception raised in its loop, the file handle it opened is        *)
(* closed.                                                                 *)
C13_HandleClosedOnEveryExit ==
    (LogWorkerDead /\ fh # "unopened") => fh = "closed"

(* C15: main is never left waiting in a join on the control queue for a    *)
(* message that a worker thread that has ended will not acknowledge.       *)
C15_SupervisorNeverStuckInJoin ==
    ~(/\ sup_pc \in {"join_init", "join_kill"}
      /\ LogWorkerDead
      /\ log_unfinished > 0)

---------------------------------------------------------------------------
(* Properties of the device worker's exits (SpecDevFault)                  *)

(* C14: whenever the device worker has ended, by a KillMessage or by an    *)
(* exception raised while it handled a command or a connection check,      *)
(* stop_all and then disconnect were issued on the client.                 *)
C14_TeardownOnEveryExit ==
    DevWorkerEnded => client_calls = <<"stop_all", "disconnect">>

---------------------------------------------------------------------------
(* Properties of the publishing step (LiveSpecLog)                         *)

Blocked == lw_pc = "publish" /\ Full(output_queue, out_maxsize)

---------------------------------------------------------------------------
(* Properties of the initial cursor (SpecTail)                             *)

(* the character the file's content at start is written with *)
InitialLetter == "z"

(* C19: what the file held when start_watching set its cursor is never     *)
(* published: no event carries a character of that content, every event    *)
(* is made of characters appended later.                                   *)
C19_InitialContentNeverPublished ==
    \A i \in DOMAIN published :
        \A k \in DOMAIN published[i].value :
            /\ published[i].value[k] # InitialLetter
            /\ \E n \in 1..nappends : published[i].value[k] = Letters[n]

C19_Witness ==
    /\ seek_offset > 0
    /\ cursor > seek_offset
    /\ published # <<>>
    /\ truncs = 0

---------------------------------------------------------------------------
(* Properties of handshake and of calls without a target (SpecSession)     *)

CallsOf(op) == {i \in DOMAIN hs_calls : hs_calls[i][1] = op}

ConnectFailed == \E i \in CallsOf("connect") : hs_calls[i][2] # "completed"

(* C17: in a handshake that found a connection, stop_all and then          *)
(* disconnect are issued before connect; connect is attempted at most      *)
(* once; if it fails the handshake raises the connection error and no scan *)
(* is started; a scan is started only after a connect that succeeded.      *)
C17_HandshakeOrder ==
    /\ (hs_was_connected /\ CallsOf("connect") # {})
          => /\ Len(hs_calls) >= 3
             /\ hs_calls[1][1] = "stop_all"
             /\ hs_calls[2][1] = "disconnect"
             /\ hs_calls[3][1] = "connect"
    /\ Cardinality(CallsOf("connect")) <= 1
    /\ ConnectFailed
          => /\ hs_pc = "failed"
             /\ hs_err = "WebsocketTimeoutError"
             /\ CallsOf("start_scanning") = {}
    /\ \A i \in CallsOf("start_scanning") :
          \E j \in 1..(i - 1) : hs_calls[j] = <<"connect", "completed">>

C17_Witness ==
    /\ hs_was_connected
    /\ ConnectFailed
    /\ hs_err = "WebsocketTimeoutError"
    /\ Len(hs_calls) = 3

(* C18: a call of apply_intensity made while no target device is selected  *)
(* dispatches nothing and ends as a call that did nothing; it raises       *)
(* nothing.                                                                *)
C18_NullTargetIsNoOp ==
    (target_device = "null" /\ ai_pc # "idle")
        => /\ ai_pc = "done"
           /\ h.dispatches = 0
           /\ lastCmd = NoCommand

---------------------------------------------------------------------------
(* Properties of the classification (SpecClassify)                         *)

PlayerA == <<"P", "l", "a", "y", "e", "r", "A">>

PlayerB == <<"P", "l", "a", "y", "e", "r", "B">>

(* the chat event and the kill event the two lines are to yield *)
ExpectedChat ==
    [kind |-> "ConsoleChatMessage",
     value |-> "Chat Message Regex Match",
     dead |-> FALSE,
     team |-> FALSE,
     author |-> PlayerA,
     content |-> <<"g", "g", " ", "w", "p">>]

ExpectedKill ==
    [kind |-> "ConsoleKillMessage",
     value |-> "Kill Event Regex Match",
     killer |-> PlayerA,
     victim |-> PlayerB,
     weapon |-> <<"s", "h", "o", "t", "g", "u", "n">>,
     crit |-> TRUE]

(* C20: the event published for the line "PlayerA : gg wp" is a chat event *)
(* with author "PlayerA", content "gg wp", team and dead false; the event  *)
(* published for "PlayerA killed PlayerB with shotgun. (crit)" is a kill   *)
(* event with killer "PlayerA", victim "PlayerB", weapon "shotgun" and     *)
(* crit true.                                                              *)
C20_ChatAndKillClassified ==
    (Tailing /\ truncs = 0) =>
        \A i \in DOMAIN published :
            /\ tailed[i] = ChatLine => published[i] = ExpectedChat
            /\ tailed[i] = KillLine => published[i] = ExpectedKill

---------------------------------------------------------------------------
(* Properties of the device worker's loop (SpecCycle)                      *)

(* KillMessages in a control queue *)
Kills(q) == Len(SelectSeq(q, LAMBDA m : m = "Kill"))

(* C21: shutdown is cooperative in the device worker. The worker leaves    *)
(* the application of a command only when apply_intensity has run to its   *)
(* end, whatever was queued meanwhile; a KillMessage leaves the control    *)
(* queue only at the control check at the top of a cycle, which then ends  *)
(* the loop; and once the loop has ended no command is dequeued,           *)
(* acknowledged or dispatched, though commands may still be queued.        *)
C21_ShutdownIsCooperative ==
    [][ /\ dw_pc = "applying" =>
              \/ dw_pc' = "applying" /\ dev_cq' \in {dev_cq} \cup {Append(dev_cq, k) : k \in ControlKinds}
              \/ dw_pc' = "control" /\ ai_pc = "done" /\ dev_cq' = dev_cq
        /\ Kills(dev_cq') < Kills(dev_cq) =>
              /\ dw_pc = "control"
              /\ Head(dev_cq) = "Kill"
              /\ dw_pc' = "teardown"
        /\ dw_pc \in {"teardown", "exited"} =>
              /\ dw_pc' \in {"teardown", "exited"}
              /\ Len(dev_mq') >= Len(dev_mq)
              /\ msg_unfinished' >= msg_unfinished
              /\ ai_pc' = "idle"
              /\ lastCmd' = lastCmd
      ]_vars

(* the worker has ended on a KillMessage after it applied a command, and   *)
(* commands it never dequeued are still queued                             *)
C21_Witness ==
    /\ dw_pc = "exited"
    /\ lastCmd # NoCommand
    /\ dev_mq # <<>>
    /\ msg_unfinished = Len(dev_mq)

---------------------------------------------------------------------------
(* Properties of the order of the steps of a cycle (SpecLog)               *)

(* C22: a cycle of a worker loop checks the control queue first, then      *)
(* handles domain messages, then does its housekeeping, then waits. For    *)
(* the log worker: when a KillMessage is pending as a cycle begins, the    *)
(* worker observes it before it handles a line, so no step of that cycle   *)
(* publishes an event.                                                     *)
C22_ControlCheckBeforeDomain ==
    [][ kill_at_top /\ lw_pc \in {"read", "publish"} => published' = published ]_vars

---------------------------------------------------------------------------
(* Properties of the scheduled connection check (SpecHealth)               *)

(* C23: a scheduled connection check runs only at the housekeeping step of *)
(* a cycle that found the command queue empty, and only when more than     *)
(* CheckPeriod seconds have passed since the last such check and since the *)
(* last applied command: two checks are never CheckPeriod seconds or less  *)
(* apart and no check runs CheckPeriod seconds or less after a command was *)
(* applied.                                                                *)
C23_HealthCheckSpacing ==
    [][ check_flip' # check_flip =>
            /\ dw_pc = "message"
            /\ dev_mq = <<>>
            /\ since_check > CheckPeriod
            /\ since_apply > CheckPeriod
      ]_vars

(* a second connection check has just run, and a command was applied       *)
(* earlier                                                                 *)
C23_Witness ==
    /\ timing
    /\ ~check_flip
    /\ since_check = 0
    /\ since_apply > CheckPeriod
    /\ lastCmd # NoCommand

---------------------------------------------------------------------------
(* Properties of the command queue of the device worker (SpecCycle)        *)

(* C24: the device worker takes commands from the head of its queue, at    *)
(* most one per cycle (only at the message step, which it leaves with the  *)
(* dequeue), and only when every command it took before is acknowledged;   *)
(* each acknowledgment is a single task_done that ends the handling of the *)
(* command, applied or not, successfully or not. So the unfinished count   *)
(* is always the commands still queued plus the one being applied, and a   *)
(* join on the queue can return as soon as nothing is queued or applied.   *)
C24_CommandAccounting ==
    /\ [](msg_unfinished = Len(dev_mq) + (IF dw_pc = "applying" THEN 1 ELSE 0))
    /\ [][ Len(dev_mq') < Len(dev_mq) =>
                /\ dw_pc = "message"
                /\ dw_pc' \in {"applying", "control"}
                /\ dev_mq' = Tail(dev_mq)
                /\ msg_unfinished = Len(dev_mq)
          ]_vars
    /\ [][ msg_unfinished' < msg_unfinished =>
                /\ msg_unfinished' = msg_unfinished - 1
                /\ dw_pc \in {"message", "applying"}
                /\ dw_pc' = "control"
          ]_vars

(* every command main could put was put and handled, one of them applied,  *)
(* and the worker is in its loop: message_queue.join() returns             *)
C24_Witness ==
    /\ dev_nmsg = MaxMsg
    /\ dev_mq = <<>>
    /\ msg_unfinished = 0
    /\ lastCmd # NoCommand
    /\ dw_pc = "control"

---------------------------------------------------------------------------
(* Properties of the start of the workers (SpecStart)                      *)

(* the log worker has opened the file and set its cursor (lines 65-70) *)
LogInitialised ==
    /\ fh = "open"
    /\ lw_pc \notin {"init", "open"}

(* the device worker has finished handshake and discovery and selected a   *)
(* target (lines 38-45)                                                    *)
DevInitialised ==
    /\ hs_pc = "done"
    /\ dw_pc \notin {"start", "dead"}
    /\ connected
    /\ devices # <<>>
    /\ target_device # "null"

(* C25: a worker acknowledges the init DummyMessage only when it has       *)
(* finished initialising, so when main's first join on the control queue   *)
(* has returned, the worker it started was initialised.                    *)
C25_InitAckAfterInitialisation ==
    /\ [][log_unfinished' < log_unfinished => LogInitialised]_vars
    /\ [][dev_unfinished' < dev_unfinished => DevInitialised]_vars
    /\ [][sup_pc = "join_init" /\ sup_pc' # "join_init" => LogInitialised]_vars
    /\ [][toy_pc = "join_init" /\ toy_pc' # "join_init" => DevInitialised]_vars

(* both mains are past their first join *)
C25_Witness ==
    /\ sup_pc = "consume"
    /\ toy_pc = "input"
    /\ log_unfinished = 0
    /\ dev_unfinished = 0

(* a scan has been made and no device is known *)
ScanFoundNothing ==
    /\ devices = <<>>
    /\ \E i \in DOMAIN hs_calls : hs_calls[i][1] = "stop_scanning"

(* C26: at its start the device worker scans until a device is known - a   *)
(* scan that finds no device does not end the worker, which goes on to     *)
(* scan again - and it is in its command loop only with a target that is   *)
(* the first device found.                                                 *)
C26_ScansUntilDeviceFound ==
    /\ ScanFoundNothing => hs_pc # "failed" /\ dw_pc # "dead"
    /\ dw_pc \in {"control", "message", "applying"} =>
          /\ devices # <<>>
          /\ target_device = devices[1]

---------------------------------------------------------------------------
(* Properties of the classification of the lines read (SpecEvents)         *)

(* the class of event the patterns give a line, the chat pattern first *)
KindFor(l) ==
    IF ChatMatch(l) # None THEN "ConsoleChatMessage"
    ELSE IF KillMatch(l) # None THEN "ConsoleKillMessage"
    ELSE "ConsoleEventMessage"

EventAsClaimed(ev, l) ==
    /\ ev.kind = KindFor(l)
    /\ ev.kind = "ConsoleEventMessage" => ev.value = l

(* C27: without truncation, every appended line that is not blank yields   *)
(* exactly one event, in file order: a chat event if the chat pattern      *)
(* matches it, otherwise a kill event if the kill pattern matches it,      *)
(* otherwise a raw event that carries the line unchanged; blank lines      *)
(* yield no event.                                                         *)
C27_OneClassifiedEventPerLine ==
    (Tailing /\ truncs = 0) =>
        LET want == NonBlank(tailed)
        IN /\ Len(published) <= Len(want)
           /\ \A i \in 1..Len(published) :
                  i <= Len(want) => EventAsClaimed(published[i], want[i])
           /\ CaughtUp => Len(published) = Len(want)

===========================================================================
